---- MODULE Spec2Model ----
(***************************************************************************)
(* A model of pylib/anki/template.py: the card render pipeline            *)
(* (render_card, render_card_from_context, apply_custom_filters) and the  *)
(* cloze expansion used by the media check (expand_clozes).               *)
(*                                                                         *)
(* Text handled by expand_clozes is a sequence of one-character strings,  *)
(* so that the regular expressions are modelled character by character.   *)
(* Text handled by the render pipeline is a sequence of tokens.           *)
(***************************************************************************)
EXTENDS Integers, Sequences, FiniteSets, TLC

VARIABLES
    \* ---- expand_clozes ----
    cpc,        \* position in expand_clozes: "start", "loop", "done"
    items,      \* how the input text was composed (used by the properties only)
    string,     \* the parameter of expand_clozes
    ords,       \* the set built at line 246
    todo,       \* the ordinals the for loop of line 258 has not visited yet
    emitted,    \* the ordinals in the order the loop visited them
    strings,    \* the list returned
    \* ---- render_card ----
    rpc,           \* position in render_card and the functions it calls
    registry,      \* the handlers add-ons registered: hooks.field_filter and the legacy hooks
    nodes,         \* [q, a]: the node lists the backend returned, as rewritten in place
    backend_nodes, \* [q, a]: the node lists as the backend returned them
    backend_calls, \* how many times col.backend.render_card was called
    side,          \* "q" or "a": which apply_custom_filters call is running
    front_side,    \* the front_side argument: <<>> for None, <<text>> otherwise
    idx,           \* the node the loop of line 199 is at
    fidx,          \* the filter the loop of line 208 is at
    res,           \* res of apply_custom_filters
    field_text,    \* field_text of apply_custom_filters
    qtext,         \* qtext of render_card_from_context
    q_avtags,      \* q_avtags of render_card_from_context
    output,        \* output of render_card: <<>> before it is assigned
    exc,           \* the exception raised during the render, if any
    log,           \* the hook invocations made by apply_custom_filters, in order
    entered,       \* the placeholders whose filter chain was started, with the starting text
    contrib,       \* the text each finished placeholder appended to res
    hook_seen,     \* what card_did_render received
    returned       \* what render_card returned

cvars == <<cpc, items, string, ords, todo, emitted, strings>>

rvars == <<rpc, registry, nodes, backend_nodes, backend_calls, side, front_side, idx, fidx,
           res, field_text, qtext, q_avtags, output, exc, log, entered, contrib,
           hook_seen, returned>>

vars == <<cvars, rvars>>

(***************************************************************************)
(* Bounds of the model.                                                    *)
(***************************************************************************)
MaxItems == 3

MaxNodes == 2

(***************************************************************************)
(* Characters and small helpers.                                           *)
(***************************************************************************)
Digits == {"0", "1", "2", "3", "4", "5", "6", "7", "8", "9"}

NL == "\n"

OPEN == <<"{", "{">>

CLOSE == <<"}", "}">>

SEP == <<":", ":">>

MinOf(S) == CHOOSE x \in S : \A y \in S : x <= y

\* pat occurs in s at index i
HasAt(s, i, pat) ==
    /\ i >= 1
    /\ i + Len(pat) - 1 <= Len(s)
    /\ \A k \in 1..Len(pat) : s[i + k - 1] = pat[k]

\* the first index >= from at which pat occurs in s, 0 when there is none
FirstAt(s, from, pat) ==
    LET S == {j \in from..Len(s) : HasAt(s, j, pat)}
    IN  IF S = {} THEN 0 ELSE MinOf(S)

Suffix(s, i) == SubSeq(s, i, Len(s))

Contains(s, pat) == \E i \in 1..Len(s) : HasAt(s, i, pat)

IsSuffixOf(t, s) == Len(t) <= Len(s) /\ Suffix(s, Len(s) - Len(t) + 1) = t

(***************************************************************************)
(* The pattern of line 246, r"{{c(\d+)::.+?}}": no flags, so the tag is a  *)
(* lower-case c, "." stops at a newline and the content is not empty.      *)
(***************************************************************************)
\* the number of digits of s starting at index i (\d+ is greedy)
DigitRun(s, i) ==
    LET S == {n \in 0..(Len(s) - i + 1) : \A k \in 0..(n - 1) : s[i + k] \in Digits}
    IN  CHOOSE n \in S : \A m \in S : m <= n

NoMatch == [ok |-> FALSE, end |-> 0, ord |-> <<>>, content |-> <<>>, hasHint |-> FALSE, hint |-> <<>>]

OrdMatchAt(s, i) ==
    IF ~HasAt(s, i, OPEN \o <<"c">>) THEN NoMatch
    ELSE LET d == DigitRun(s, i + 3)
             p == i + 3 + d + 2
             e == FirstAt(s, p + 1, CLOSE)
         IN  IF d = 0 \/ ~HasAt(s, i + 3 + d, SEP) \/ e = 0 THEN NoMatch
             ELSE IF \E k \in p..(e - 1) : s[k] = NL THEN NoMatch
             ELSE [NoMatch EXCEPT !.ok = TRUE, !.end = e + 2,
                                  !.ord = SubSeq(s, i + 3, i + 2 + d),
                                  !.content = SubSeq(s, p, e - 1)]

\* re.findall: leftmost matches, each search resuming where the last match ended
RECURSIVE FindAllOrds(_, _)
FindAllOrds(s, i) ==
    IF i > Len(s) THEN {}
    ELSE LET m == OrdMatchAt(s, i)
         IN  IF m.ok THEN {m.ord} \cup FindAllOrds(s, m.end)
             ELSE FindAllOrds(s, i + 1)

(***************************************************************************)
(* clozeReg (line 236) interpolated with an ordinal pattern: either the    *)
(* digits of an ordinal or the text ".+?".  Flags (?si): the tag matches   *)
(* c or C and "." matches a newline too.                                   *)
(***************************************************************************)
AnyOrd == <<".", "+", "?">>

\* OpenerEnd with the ordinal matched as a prefix of the marker's digits
OpenerEndPrefix(s, i, ordpat) ==
    IF ~(HasAt(s, i, OPEN) /\ i + 2 <= Len(s) /\ s[i + 2] \in {"c", "C"}) THEN 0
    ELSE IF ordpat = AnyOrd
         THEN LET q == FirstAt(s, i + 4, SEP) IN IF q = 0 THEN 0 ELSE q + 2
         ELSE IF ~HasAt(s, i + 3, ordpat) THEN 0
              ELSE LET r == i + 3 + Len(ordpat)
                       d == DigitRun(s, r)
                   IN  IF HasAt(s, r + d, SEP) THEN r + d + 2 ELSE 0

\* the index just after "{{c<ordpat>::" when it matches at i, 0 otherwise
OpenerEnd(s, i, ordpat) ==
    IF ~(HasAt(s, i, OPEN) /\ i + 2 <= Len(s) /\ s[i + 2] \in {"c", "C"}) THEN 0
    ELSE IF ordpat = AnyOrd
         THEN LET q == FirstAt(s, i + 4, SEP) IN IF q = 0 THEN 0 ELSE q + 2
         ELSE IF HasAt(s, i + 3, ordpat \o SEP) THEN i + 3 + Len(ordpat) + 2 ELSE 0

\* clozeReg with the end of the text accepted in place of the closing braces
clozeRegToEnd(s, i, ordpat) ==
    LET p == OpenerEnd(s, i, ordpat)
        c == IF p = 0 THEN 0 ELSE FirstAt(s, p, CLOSE)
        j0 == IF c = 0 THEN Len(s) + 1 ELSE c
    IN  IF p = 0 THEN NoMatch
        ELSE LET H == {j \in p..(j0 - 1) : HasAt(s, j, SEP)}
             IN  IF H = {}
                 THEN [NoMatch EXCEPT !.ok = TRUE, !.end = j0 + 2,
                                      !.content = SubSeq(s, p, j0 - 1)]
                 ELSE LET j1 == MinOf(H)
                      IN  [NoMatch EXCEPT !.ok = TRUE, !.end = j0 + 2,
                                          !.content = SubSeq(s, p, j1 - 1),
                                          !.hasHint = TRUE,
                                          !.hint = SubSeq(s, j1 + 2, j0 - 1)]

clozeReg(s, i, ordpat) ==
    LET p == OpenerEnd(s, i, ordpat)
        j0 == IF p = 0 THEN 0 ELSE FirstAt(s, p, CLOSE)
    IN  IF p = 0 \/ j0 = 0 THEN NoMatch
        ELSE LET H == {j \in p..(j0 - 1) : HasAt(s, j, SEP)}
             IN  IF H = {}
                 THEN [NoMatch EXCEPT !.ok = TRUE, !.end = j0 + 2,
                                      !.content = SubSeq(s, p, j0 - 1)]
                 ELSE LET j1 == MinOf(H)
                      IN  [NoMatch EXCEPT !.ok = TRUE, !.end = j0 + 2,
                                          !.content = SubSeq(s, p, j1 - 1),
                                          !.hasHint = TRUE,
                                          !.hint = SubSeq(s, j1 + 2, j0 - 1)]

qrepl(m) ==
    IF m.hasHint /\ m.hint # <<>> THEN <<"[">> \o m.hint \o <<"]">>
    ELSE <<"[", ".", ".", ".", "]">>

arepl(m) == m.content

Repl(kind, m) == IF kind = "qrepl" THEN qrepl(m) ELSE arepl(m)

\* re.sub(clozeReg % ordpat, repl, s), from index i on
RECURSIVE Sub(_, _, _, _)
Sub(ordpat, kind, s, i) ==
    IF i > Len(s) THEN <<>>
    ELSE LET m == clozeReg(s, i, ordpat)
         IN  IF m.ok THEN Repl(kind, m) \o Sub(ordpat, kind, s, m.end)
             ELSE <<s[i]>> \o Sub(ordpat, kind, s, i + 1)

\* the body of the for loop, lines 259-260
QuestionVariant(s, ord) == Sub(AnyOrd, "arepl", Sub(ord, "qrepl", s, 1), 1)

\* line 262
RevealedVariant(s) == Sub(AnyOrd, "arepl", s, 1)


(***************************************************************************)
(* The render pipeline.  A text is a sequence of tokens.                   *)
(***************************************************************************)
Whitespace == {" ", NL}

\* not text.strip(), line 130
IsBlank(text) == \A n \in 1..Len(text) : text[n] \in Whitespace

AvTokens == {"[sound:s.mp3]"}

RECURSIVE SelectTokens(_, _)
SelectTokens(text, keep) ==
    IF text = <<>> THEN <<>>
    ELSE (IF Head(text) \in keep THEN <<Head(text)>> ELSE <<>>) \o SelectTokens(Tail(text), keep)

\* col.backend.extract_av_tags: the text without its AV tags, and the tags in order
ExtractAvTags(text) ==
    [text |-> SelectTokens(text, {text[n] : n \in 1..Len(text)} \ AvTokens),
     tags |-> SelectTokens(text, AvTokens)]

\* the nodes of a TemplateReplacementList: a str, or a replacement with
\* field_name, current_text and filters
LitNode(text) == [lit |-> TRUE, field_name |-> "", current_text |-> text, filters |-> <<>>]

FieldNode(name, text, filters) ==
    [lit |-> FALSE, field_name |-> name, current_text |-> text, filters |-> filters]

NodeKinds ==
    { LitNode(<<"a", "[sound:s.mp3]">>),
      LitNode(<<" ">>),
      FieldNode("Front", <<"x">>, <<"f1", "f2">>),
      FieldNode("FrontSide", <<"o">>, <<"f2">>) }

NodeSeqs == UNION {[1..n -> NodeKinds] : n \in 0..MaxNodes}

\* a handler appended to hooks.field_filter: it changes the text of the filter
\* it is written for and returns any other text as it got it (lines 20-23)
Handler(h, text, filter_name) ==
    IF filter_name = h.filter THEN Append(text, h.tag) ELSE text

\* hooks.field_filter(text, field_name, filter_name, ctx): every registered
\* handler in registration order, each given the text the one before returned
RECURSIVE FieldFilter(_, _, _)
FieldFilter(handlers, text, filter_name) ==
    IF handlers = <<>> THEN text
    ELSE FieldFilter(Tail(handlers), Handler(Head(handlers), text, filter_name), filter_name)

\* anki.hooks.runFilter(hook, text, ...): the functions added under that hook
\* name, in order; the text unchanged when there is none
RECURSIVE RunFilter(_, _, _)
RunFilter(legacy, hook, text) ==
    IF legacy = <<>> THEN text
    ELSE RunFilter(Tail(legacy), hook,
                   IF Head(legacy).hook = hook THEN Append(text, Head(legacy).tag) ELSE text)

\* the hook name built with the name of another filter
LegacyHookNameFixed(filter_name) == <<"fmod_", "f2">>

\* "fmod_" + filter_name, line 214
LegacyHookName(filter_name) == <<"fmod_", filter_name>>

Registries ==
    { [primary |-> <<[filter |-> "f1", tag |-> "p1"], [filter |-> "f2", tag |-> "p2"]>>,
       legacy |-> <<[hook |-> <<"fmod_", "f1">>, tag |-> "l1"]>>],
      [primary |-> <<>>,
       legacy |-> <<[hook |-> <<"fmod_", "f2">>, tag |-> "l2"]>>],
      [primary |-> <<>>, legacy |-> <<>>] }

HasPrimary(reg, filter_name) ==
    \E n \in 1..Len(reg.primary) : reg.primary[n].filter = filter_name

HasLegacy(reg, hook) == \E n \in 1..Len(reg.legacy) : reg.legacy[n].hook = hook

\* the exceptions a handler written by an add-on may raise
ExcClasses == {"BackendException", "Exception"}

NoExc == [origin |-> "none", cls |-> "", msg |-> <<>>, side |-> "", idx |-> 0, fidx |-> 0,
          loglen |-> 0, res |-> <<>>]

\* the iteration of line 208 with the filters taken last to first
FilterAtReversed(filters, j) == filters[Len(filters) - j + 1]

\* for filter_name in node.filters, line 208
FilterAt(filters, j) == filters[j]

\* the injection done for every placeholder when a front side is given
InjectAlways(node, fs) ==
    IF fs # <<>> THEN [node EXCEPT !.current_text = fs[1]] ELSE node

\* lines 204-205
InjectFrontSide(node, fs) ==
    IF node.field_name = "FrontSide" /\ fs # <<>>
    THEN [node EXCEPT !.current_text = fs[1]]
    ELSE node

\* an except clause that catches every exception
CaughtAny(cls) == TRUE

\* except anki.rsbackend.BackendException, line 121
Caught(cls) == cls = "BackendException"

\* _(), the translation of a message
Translate(msg) == <<msg>>

\* the fallback output with the message as question text only
ErrorOutputQuestionOnly(e) ==
    [question_text |-> Translate("Card template has a problem:") \o <<"<br>">> \o e,
     answer_text |-> <<>>,
     question_av_tags |-> <<>>,
     answer_av_tags |-> <<>>]

\* lines 122-128
ErrorOutput(e) ==
    LET errmsg == Translate("Card template has a problem:") \o <<"<br>">> \o e
    IN  [question_text |-> errmsg,
         answer_text |-> errmsg,
         question_av_tags |-> <<>>,
         answer_av_tags |-> <<>>]

\* lines 131-133
BlankMessage ==
    Translate("The front of this card is blank.")
        \o <<"<a href='", "HELP_SITE", "'>">> \o Translate("More info") \o <<"</a>">>

RenderIdle ==
    /\ rpc = "idle"
    /\ registry = [primary |-> <<>>, legacy |-> <<>>]
    /\ nodes = [q |-> <<>>, a |-> <<>>]
    /\ backend_nodes = [q |-> <<>>, a |-> <<>>]
    /\ backend_calls = 0
    /\ side = "q"
    /\ front_side = <<>>
    /\ idx = 0
    /\ fidx = 0
    /\ res = <<>>
    /\ field_text = <<>>
    /\ qtext = <<>>
    /\ q_avtags = <<>>
    /\ output = <<>>
    /\ exc = NoExc
    /\ log = <<>>
    /\ entered = <<>>
    /\ contrib = <<>>
    /\ hook_seen = <<>>
    /\ returned = <<>>

ClozeIdle ==
    /\ cpc = "idle"
    /\ items = <<>>
    /\ string = <<>>
    /\ ords = {}
    /\ todo = {}
    /\ emitted = <<>>
    /\ strings = <<>>

(***************************************************************************)
(* The texts expand_clozes is run on: up to MaxItems pieces, each a piece  *)
(* of plain text, a cloze marker, an opening without its closing braces    *)
(* or another construct in double braces.                                  *)
(***************************************************************************)
Cloze(tag, ord, content, hasHint, hint) ==
    [k |-> "cloze", tag |-> tag, ord |-> ord, content |-> content,
     hasHint |-> hasHint, hint |-> hint]

Lit(text) == [k |-> "lit", tag |-> "", ord |-> <<>>, content |-> text,
              hasHint |-> FALSE, hint |-> <<>>]

Unclosed(ord, content) == [k |-> "open", tag |-> "c", ord |-> ord, content |-> content,
                           hasHint |-> FALSE, hint |-> <<>>]

ItemKinds ==
    { Lit(<<"b">>),
      Lit(OPEN \o <<"c", "x">> \o SEP \o <<"q">> \o CLOSE),
      Cloze("c", <<"1">>, <<"F">>, FALSE, <<>>),
      Cloze("c", <<"1">>, <<"P">>, TRUE, <<"h">>),
      Cloze("c", <<"1">>, <<"a">>, TRUE, <<>>),
      Cloze("c", <<"1", "0">>, <<"x">>, FALSE, <<>>),
      Cloze("C", <<"1">>, <<"u">>, FALSE, <<>>),
      Cloze("c", <<"3">>, <<"m", NL, "n">>, FALSE, <<>>),
      Unclosed(<<"1">>, <<"a">>) }

ItemText(it) ==
    IF it.k = "lit" THEN it.content
    ELSE OPEN \o <<it.tag>> \o it.ord \o SEP \o it.content
         \o (IF it.hasHint THEN SEP \o it.hint ELSE <<>>)
         \o (IF it.k = "cloze" THEN CLOSE ELSE <<>>)

RECURSIVE Flatten(_)
Flatten(its) == IF its = <<>> THEN <<>> ELSE ItemText(Head(its)) \o Flatten(Tail(its))

ItemSeqs == UNION {[1..n -> ItemKinds] : n \in 0..MaxItems}

(***************************************************************************)
(* expand_clozes, lines 244-264.                                           *)
(***************************************************************************)
InitCloze ==
    /\ items \in ItemSeqs
    /\ string = Flatten(items)
    /\ cpc = "start"
    /\ ords = {}
    /\ todo = {}
    /\ emitted = <<>>
    /\ strings = <<>>
    /\ RenderIdle

\* lines 246-247
ExpandStart ==
    /\ cpc = "start"
    /\ ords' = FindAllOrds(string, 1)
    /\ todo' = ords'
    /\ strings' = <<>>
    /\ cpc' = "loop"
    /\ UNCHANGED <<items, string, emitted>>
    /\ UNCHANGED rvars

\* one iteration of the loop of lines 258-261; a set is iterated in no
\* particular order
ExpandOrd ==
    /\ cpc = "loop"
    /\ \E ord \in todo :
        /\ strings' = Append(strings, QuestionVariant(string, ord))
        /\ emitted' = Append(emitted, ord)
        /\ todo' = todo \ {ord}
    /\ UNCHANGED <<cpc, items, string, ords>>
    /\ UNCHANGED rvars

\* lines 262-264
ExpandFinish ==
    /\ cpc = "loop"
    /\ todo = {}
    /\ strings' = Append(strings, RevealedVariant(string))
    /\ cpc' = "done"
    /\ UNCHANGED <<items, string, ords, todo, emitted>>
    /\ UNCHANGED rvars

NextCloze == ExpandStart \/ ExpandOrd \/ ExpandFinish

SpecCloze == InitCloze /\ [][NextCloze]_vars

(***************************************************************************)
(* render_card, lines 107-138, with render_card_from_context, lines        *)
(* 164-185, and apply_custom_filters, lines 188-223.                       *)
(***************************************************************************)
BackendMessages == {<<"Found '{{' without '}}'">>}

HandlerMessages == {<<"handler failed">>}

InitRender ==
    /\ ClozeIdle
    /\ rpc = "start"
    /\ registry \in Registries
    /\ nodes = [q |-> <<>>, a |-> <<>>]
    /\ backend_nodes = [q |-> <<>>, a |-> <<>>]
    /\ backend_calls = 0
    /\ side = "q"
    /\ front_side = <<>>
    /\ idx = 0
    /\ fidx = 0
    /\ res = <<>>
    /\ field_text = <<>>
    /\ qtext = <<>>
    /\ q_avtags = <<>>
    /\ output = <<>>
    /\ exc = NoExc
    /\ log = <<>>
    /\ entered = <<>>
    /\ contrib = <<>>
    /\ hook_seen = <<>>
    /\ returned = <<>>

\* an exception of class cls leaves render_card_from_context: the try of
\* lines 119-128 either builds the fallback output or lets it through
Raise(origin, cls, msg) ==
    /\ exc' = [origin |-> origin, cls |-> cls, msg |-> msg, side |-> side, idx |-> idx,
               fidx |-> fidx, loglen |-> Len(log), res |-> res]
    /\ IF Caught(cls)
       THEN output' = <<ErrorOutput(msg)>> /\ rpc' = "finish"
       ELSE output' = output /\ rpc' = "raised"

\* lines 112-116 and 170-174: the backend returns the two node lists
BackendRenderOk ==
    /\ rpc = "start"
    /\ \E qn, an \in NodeSeqs :
        /\ nodes' = [q |-> qn, a |-> an]
        /\ backend_nodes' = [q |-> qn, a |-> an]
    /\ backend_calls' = backend_calls + 1
    /\ side' = "q"
    /\ front_side' = <<>>
    /\ rpc' = "apply"
    /\ UNCHANGED <<registry, idx, fidx, res, field_text, qtext, q_avtags, output, exc, log,
                   entered, contrib, hook_seen, returned>>
    /\ UNCHANGED cvars

\* lines 112-116 and 170-172: the backend raises a template error
BackendRenderFail ==
    /\ rpc = "start"
    /\ \E e \in BackendMessages : Raise("backend", "BackendException", e)
    /\ backend_calls' = backend_calls + 1
    /\ UNCHANGED <<registry, nodes, backend_nodes, side, front_side, idx, fidx, res,
                   field_text, qtext, q_avtags, log, entered, contrib, hook_seen, returned>>
    /\ UNCHANGED cvars

\* lines 194-198
ApplyBegin ==
    /\ rpc = "apply"
    /\ LET rendered == nodes[side]
       IN  IF Len(rendered) = 1 /\ rendered[1].lit
           THEN /\ res' = rendered[1].current_text
                /\ rpc' = "extract"
                /\ idx' = idx
           ELSE /\ res' = <<>>
                /\ rpc' = "node"
                /\ idx' = 1
    /\ UNCHANGED <<registry, nodes, backend_nodes, backend_calls, side, front_side, fidx,
                   field_text, qtext, q_avtags, output, exc, log, entered, contrib,
                   hook_seen, returned>>
    /\ UNCHANGED cvars

\* lines 199-207: the next node of the list
EnterNode ==
    /\ rpc = "node"
    /\ idx <= Len(nodes[side])
    /\ LET node == nodes[side][idx]
       IN  IF node.lit
           THEN /\ res' = res \o node.current_text
                /\ idx' = idx + 1
                /\ UNCHANGED <<nodes, field_text, fidx, rpc, entered>>
           ELSE LET injected == InjectFrontSide(node, front_side)
                IN  /\ nodes' = [nodes EXCEPT ![side][idx] = injected]
                    /\ field_text' = injected.current_text
                    /\ fidx' = 1
                    /\ rpc' = "filter"
                    /\ entered' = Append(entered, [side |-> side, node |-> idx,
                                                   text |-> injected.current_text,
                                                   front |-> front_side])
                    /\ UNCHANGED <<res, idx>>
    /\ UNCHANGED <<registry, backend_nodes, backend_calls, side, front_side, qtext,
                   q_avtags, output, exc, log, contrib, hook_seen, returned>>
    /\ UNCHANGED cvars

\* lines 208-211: the handlers of hooks.field_filter return, or one of them raises
FilterPrimary ==
    /\ rpc = "filter"
    /\ fidx <= Len(nodes[side][idx].filters)
    /\ LET name == FilterAt(nodes[side][idx].filters, fidx)
           out == FieldFilter(registry.primary, field_text, name)
       IN  \/ /\ field_text' = out
              /\ log' = Append(log, [side |-> side, node |-> idx, fidx |-> fidx,
                                     chain |-> "primary", filter |-> name,
                                     hook |-> <<"field_filter">>,
                                     in |-> field_text, out |-> out])
              /\ rpc' = "legacy"
              /\ UNCHANGED <<output, exc>>
           \/ /\ HasPrimary(registry, name)
              /\ \E cls \in ExcClasses, e \in HandlerMessages : Raise("handler", cls, e)
              /\ UNCHANGED <<field_text, log>>
    /\ UNCHANGED <<registry, nodes, backend_nodes, backend_calls, side, front_side, idx,
                   fidx, res, qtext, q_avtags, entered, contrib, hook_seen, returned>>
    /\ UNCHANGED cvars

\* lines 212-220: the legacy hook "fmod_" + filter_name
FilterLegacy ==
    /\ rpc = "legacy"
    /\ LET name == FilterAt(nodes[side][idx].filters, fidx)
           hook == LegacyHookName(name)
           out == RunFilter(registry.legacy, hook, field_text)
       IN  \/ /\ field_text' = out
              /\ log' = Append(log, [side |-> side, node |-> idx, fidx |-> fidx,
                                     chain |-> "legacy", filter |-> name,
                                     hook |-> hook,
                                     in |-> field_text, out |-> out])
              /\ fidx' = fidx + 1
              /\ rpc' = "filter"
              /\ UNCHANGED <<output, exc>>
           \/ /\ HasLegacy(registry, hook)
              /\ \E cls \in ExcClasses, e \in HandlerMessages : Raise("handler", cls, e)
              /\ UNCHANGED <<field_text, log, fidx>>
    /\ UNCHANGED <<registry, nodes, backend_nodes, backend_calls, side, front_side, idx,
                   res, qtext, q_avtags, entered, contrib, hook_seen, returned>>
    /\ UNCHANGED cvars

\* line 222: the filters of the node are exhausted
NodeDone ==
    /\ rpc = "filter"
    /\ fidx > Len(nodes[side][idx].filters)
    /\ res' = res \o field_text
    /\ contrib' = Append(contrib, [side |-> side, node |-> idx, text |-> field_text])
    /\ idx' = idx + 1
    /\ rpc' = "node"
    /\ UNCHANGED <<registry, nodes, backend_nodes, backend_calls, side, front_side, fidx,
                   field_text, qtext, q_avtags, output, exc, log, entered, hook_seen,
                   returned>>
    /\ UNCHANGED cvars

\* line 223
ApplyReturn ==
    /\ rpc = "node"
    /\ idx > Len(nodes[side])
    /\ rpc' = "extract"
    /\ UNCHANGED <<registry, nodes, backend_nodes, backend_calls, side, front_side, idx,
                   fidx, res, field_text, qtext, q_avtags, output, exc, log, entered,
                   contrib, hook_seen, returned>>
    /\ UNCHANGED cvars

\* lines 175 and 177: the question is complete and becomes the front side
ExtractQuestion ==
    /\ rpc = "extract"
    /\ side = "q"
    /\ LET r == ExtractAvTags(res)
       IN  /\ qtext' = r.text
           /\ q_avtags' = r.tags
           /\ front_side' = <<r.text>>
    /\ side' = "a"
    /\ rpc' = "apply"
    /\ UNCHANGED <<registry, nodes, backend_nodes, backend_calls, idx, fidx, res,
                   field_text, output, exc, log, entered, contrib, hook_seen, returned>>
    /\ UNCHANGED cvars

\* lines 178-185
ExtractAnswer ==
    /\ rpc = "extract"
    /\ side = "a"
    /\ LET r == ExtractAvTags(res)
       IN  output' = <<[question_text |-> qtext,
                        answer_text |-> r.text,
                        question_av_tags |-> q_avtags,
                        answer_av_tags |-> r.tags]>>
    /\ rpc' = "finish"
    /\ UNCHANGED <<registry, nodes, backend_nodes, backend_calls, side, front_side, idx,
                   fidx, res, field_text, qtext, q_avtags, exc, log, entered, contrib,
                   hook_seen, returned>>
    /\ UNCHANGED cvars

\* lines 130-138: the blank check, the card_did_render hook and the return
RenderCardFinish ==
    /\ rpc = "finish"
    /\ LET out == output[1]
           final == IF IsBlank(out.question_text)
                    THEN [out EXCEPT !.question_text = BlankMessage]
                    ELSE out
       IN  /\ output' = <<final>>
           /\ hook_seen' = <<final>>
           /\ returned' = <<final>>
    /\ rpc' = "done"
    /\ UNCHANGED <<registry, nodes, backend_nodes, backend_calls, side, front_side, idx,
                   fidx, res, field_text, qtext, q_avtags, exc, log, entered, contrib>>
    /\ UNCHANGED cvars

NextRender ==
    \/ BackendRenderOk
    \/ BackendRenderFail
    \/ ApplyBegin
    \/ EnterNode
    \/ FilterPrimary
    \/ FilterLegacy
    \/ NodeDone
    \/ ApplyReturn
    \/ ExtractQuestion
    \/ ExtractAnswer
    \/ RenderCardFinish

SpecRender == InitRender /\ [][NextRender]_vars

(***************************************************************************)
(* Properties of expand_clozes.                                            *)
(***************************************************************************)
Plain(text) == \A n \in 1..Len(text) : text[n] \notin {"{", "}", ":"}

\* the text is made of plain text and well-formed cloze markers only
Clean(its) ==
    \A n \in 1..Len(its) :
        \/ its[n].k = "cloze" /\ Plain(its[n].content) /\ Plain(its[n].hint)
        \/ its[n].k = "lit" /\ Plain(its[n].content)

Ellipsis == <<"[", ".", ".", ".", "]">>

Bracketed(text) == <<"[">> \o text \o <<"]">>

\* what a marker of the masked ordinal is to become; emptyIsHint says whether
\* an empty hint segment counts as a hint that was supplied
Masked(it, emptyIsHint) ==
    IF it.hasHint /\ (emptyIsHint \/ it.hint # <<>>) THEN Bracketed(it.hint) ELSE Ellipsis

RECURSIVE ExpectedVariant(_, _, _)
ExpectedVariant(its, k, emptyIsHint) ==
    IF its = <<>> THEN <<>>
    ELSE LET it == Head(its)
             out == IF it.k = "cloze" /\ it.ord = k THEN Masked(it, emptyIsHint)
                    ELSE it.content
         IN  out \o ExpectedVariant(Tail(its), k, emptyIsHint)

RECURSIVE ExpectedRevealed(_)
ExpectedRevealed(its) ==
    IF its = <<>> THEN <<>> ELSE Head(its).content \o ExpectedRevealed(Tail(its))

MarkerOrds(its) == {its[n].ord : n \in {m \in 1..Len(its) : its[m].k = "cloze"}}

\* "{{c<digits>::" (either case of the tag) starts at index i of s
IsOpening(s, i) ==
    /\ HasAt(s, i, OPEN)
    /\ i + 2 <= Len(s)
    /\ s[i + 2] \in {"c", "C"}
    /\ DigitRun(s, i + 3) >= 1
    /\ HasAt(s, i + 3 + DigitRun(s, i + 3), SEP)

NoClozeMarker(s) == \A i \in 1..Len(s) : ~IsOpening(s, i)

\* C4: in the variant emitted for ordinal k every marker of ordinal k is
\* replaced by [hint] when a hint segment was supplied (an empty one included,
\* which is not the same as an absent one) and by [...] otherwise, and every
\* marker of another ordinal by its content.
C4_MaskedByHintOrEllipsis ==
    (cpc = "done" /\ Clean(items)) =>
        \A n \in 1..Len(emitted) : strings[n] = ExpectedVariant(items, emitted[n], TRUE)

\* C5: expand_clozes returns N + 1 variants, N the number of distinct ordinals
\* of the markers in the text (tag in either case, content over newlines too),
\* the last one being the fully revealed text.
C5_OneVariantPerOrdinalPlusRevealed ==
    (cpc = "done" /\ Clean(items)) =>
        /\ Len(strings) = Cardinality(MarkerOrds(items)) + 1
        /\ {emitted[n] : n \in 1..Len(emitted)} = MarkerOrds(items)
        /\ strings[Len(strings)] = ExpectedRevealed(items)

\* C6: a text without any cloze marker {{c<digits>::...}} yields exactly one
\* variant, identical to the text.
C6_NoClozeIsIdentity ==
    (cpc = "done" /\ NoClozeMarker(string)) => strings = <<string>>

\* C7: masking for ordinal k touches only the markers whose digits are exactly
\* k: in the variant for k every marker of another ordinal (10 when k is 1)
\* is replaced by its content and never by a bracketed mask.
C7_ExactOrdinalMasking ==
    (cpc = "done" /\ Clean(items)) =>
        \A n \in 1..Len(emitted) :
            \E emptyIsHint \in BOOLEAN :
                strings[n] = ExpectedVariant(items, emitted[n], emptyIsHint)

C7_Witness ==
    /\ cpc = "done"
    /\ Clean(items)
    /\ \E a, b \in 1..Len(items) :
        /\ items[a].k = "cloze" /\ items[a].ord = <<"1">>
        /\ items[b].k = "cloze" /\ items[b].ord = <<"1", "0">>
    /\ \E n \in 1..Len(emitted) :
        /\ emitted[n] = <<"1">>
        /\ Contains(strings[n], <<"x">>)
        /\ Contains(strings[n], <<"[">>)
        /\ ~Contains(strings[n], <<"x", "]">>)

FilterStep(reg, name, text) ==
    RunFilter(reg.legacy, <<"fmod_", name>>, FieldFilter(reg.primary, text, name))

\* the filters applied first to last: the last filter sees the output of the others
RECURSIVE InOrder(_, _, _)
InOrder(reg, filters, text) ==
    IF filters = <<>> THEN text
    ELSE FilterStep(reg, filters[Len(filters)],
                    InOrder(reg, SubSeq(filters, 1, Len(filters) - 1), text))

\* the filters applied last to first
RECURSIVE InReverse(_, _, _)
InReverse(reg, filters, text) ==
    IF filters = <<>> THEN text
    ELSE FilterStep(reg, filters[1], InReverse(reg, Tail(filters), text))

\* the n-th hook invocation follows the (n-1)-th as the claim orders them
FollowsInOrder(n) ==
    LET r == log[n]
        node == nodes[r.side][r.node]
    IN  /\ r.fidx \in 1..Len(node.filters)
        /\ r.filter = node.filters[r.fidx]
        /\ IF r.chain = "legacy"
           THEN /\ r.hook = <<"fmod_", r.filter>>
                /\ n > 1
                /\ log[n - 1].chain = "primary"
                /\ log[n - 1].side = r.side /\ log[n - 1].node = r.node
                /\ log[n - 1].fidx = r.fidx
                /\ r.in = log[n - 1].out
           ELSE IF r.fidx > 1
                THEN /\ n > 1
                     /\ log[n - 1].chain = "legacy"
                     /\ log[n - 1].side = r.side /\ log[n - 1].node = r.node
                     /\ log[n - 1].fidx = r.fidx - 1
                     /\ r.in = log[n - 1].out
                ELSE /\ r.in = node.current_text
                     /\ n > 1 => /\ log[n - 1].chain = "legacy"
                                 /\ <<log[n - 1].side, log[n - 1].node>> # <<r.side, r.node>>

\* the hook invocations made for one placeholder
CallsOf(s, n) == SelectSeq(log, LAMBDA r : r.side = s /\ r.node = n)

\* C1: the filters of a placeholder run in declared order; for each one the
\* primary registry is invoked and then the legacy hook "fmod_" + name, both
\* always, each on the text the invocation before returned, so that filters
\* [f1, f2] give f2(f1(text)).
C1_FiltersInDeclaredOrder ==
    /\ \A n \in 1..Len(log) : FollowsInOrder(n)
    /\ \A c \in 1..Len(contrib) :
        LET node == nodes[contrib[c].side][contrib[c].node]
        IN  /\ contrib[c].text = InOrder(registry, node.filters, node.current_text)
            /\ Len(CallsOf(contrib[c].side, contrib[c].node)) = 2 * Len(node.filters)

C1_Witness ==
    \E c \in 1..Len(contrib) :
        LET node == nodes[contrib[c].side][contrib[c].node]
            calls == CallsOf(contrib[c].side, contrib[c].node)
        IN  /\ node.filters = <<"f1", "f2">>
            /\ contrib[c].text = <<"x", "p1", "l1", "p2">>
            /\ contrib[c].text # InReverse(registry, node.filters, node.current_text)
            /\ Len(calls) = 4
            /\ <<calls[1].hook, calls[2].hook, calls[3].hook, calls[4].hook>>
                 = <<<<"field_filter">>, <<"fmod_", "f1">>, <<"field_filter">>, <<"fmod_", "f2">>>>
            /\ <<calls[1].filter, calls[3].filter>> = <<"f1", "f2">>

Unregistered(reg, name) == ~HasPrimary(reg, name) /\ ~HasLegacy(reg, <<"fmod_", name>>)

\* C2: a filter name with no handler, primary or legacy, is an identity step
\* that raises nothing, and a placeholder whose filters are all of that kind
\* contributes exactly its current text.
C2_UnregisteredFilterIsIdentity ==
    /\ \A n \in 1..Len(log) :
        Unregistered(registry, log[n].filter) => log[n].out = log[n].in
    /\ \A c \in 1..Len(contrib) :
        LET node == nodes[contrib[c].side][contrib[c].node]
        IN  (\A j \in 1..Len(node.filters) : Unregistered(registry, node.filters[j]))
                => contrib[c].text = node.current_text
    /\ exc.origin = "handler" =>
        ~Unregistered(registry, nodes[exc.side][exc.idx].filters[exc.fidx])

C2_Witness ==
    /\ rpc = "done"
    /\ exc.origin = "none"
    /\ registry.primary = <<>> /\ registry.legacy # <<>>
    /\ \E c \in 1..Len(contrib) :
        LET node == nodes[contrib[c].side][contrib[c].node]
        IN  /\ node.filters = <<"f1", "f2">>
            /\ contrib[c].text = <<"x", "l2">>
            /\ \E n \in 1..Len(log) :
                /\ log[n].filter = "f1" /\ log[n].chain = "legacy"
                /\ log[n].out = log[n].in

\* C3: with a front side given, a placeholder named FrontSide starts its
\* filter chain from the front side whatever text it carried; otherwise it
\* starts from its own text; and the answer is rendered with the question
\* text of the same render as its front side.
C3_FrontSideInjected ==
    /\ \A n \in 1..Len(entered) :
        LET e == entered[n]
            orig == backend_nodes[e.side][e.node]
        IN  /\ e.text = IF orig.field_name = "FrontSide" /\ e.front # <<>>
                        THEN e.front[1] ELSE orig.current_text
            /\ e.front = IF e.side = "a" THEN <<qtext>> ELSE <<>>
    /\ (side = "a" /\ rpc \in {"apply", "node", "filter", "legacy", "extract"})
            => front_side = <<qtext>>

C3_Witness ==
    /\ rpc = "done"
    /\ exc.origin = "none"
    /\ \E n, m \in 1..Len(entered) :
        /\ entered[n].side = "a"
        /\ backend_nodes.a[entered[n].node].field_name = "FrontSide"
        /\ entered[n].text = qtext
        /\ qtext # <<"o">>
        /\ entered[m].side = "q"
        /\ backend_nodes.q[entered[m].node].field_name = "FrontSide"
        /\ entered[m].text = <<"o">>

\* C9: when the backend raises a template error the render is not retried
\* and the output has the same error message as question and answer text and
\* no media tags; that output reaches card_did_render and the caller.
C9_TemplateErrorOutput ==
    exc.origin = "backend" =>
        /\ backend_calls = 1
        /\ log = <<>>
        /\ rpc \in {"finish", "done"}
        /\ Len(output) = 1
        /\ output[1].question_text = <<"Card template has a problem:", "<br>">> \o exc.msg
        /\ output[1].answer_text = output[1].question_text
        /\ output[1].question_av_tags = <<>>
        /\ output[1].answer_av_tags = <<>>
        /\ rpc = "done" => (hook_seen = output /\ returned = output)

C9_Witness ==
    /\ exc.origin = "backend"
    /\ rpc = "done"
    /\ Len(returned) = 1
    /\ returned[1].question_text # BlankMessage
    /\ returned[1].answer_text = returned[1].question_text

\* no filter and no node was processed after the handler raised
NothingProcessedSince ==
    /\ Len(log) = exc.loglen
    /\ side = exc.side
    /\ idx = exc.idx
    /\ fidx = exc.fidx
    /\ res = exc.res

\* C10 as stated: whatever a registered handler raises leaves render_card
\* uncaught, with no output, fallback or partial, and nothing processed after.
C10_HandlerErrorPropagates ==
    exc.origin = "handler" =>
        /\ rpc = "raised"
        /\ output = <<>> /\ hook_seen = <<>> /\ returned = <<>>
        /\ NothingProcessedSince

\* C10 as amended: that holds of every exception but a BackendException,
\* which the except clause of render_card turns into the fallback output.
C10_HandlerErrorPropagatesUnlessBackend ==
    exc.origin = "handler" =>
        /\ NothingProcessedSince
        /\ exc.cls # "BackendException" =>
            /\ rpc = "raised"
            /\ output = <<>> /\ hook_seen = <<>> /\ returned = <<>>
        /\ exc.cls = "BackendException" =>
            /\ rpc \in {"finish", "done"}
            /\ output = <<[question_text |-> <<"Card template has a problem:", "<br>">> \o exc.msg,
                           answer_text |-> <<"Card template has a problem:", "<br>">> \o exc.msg,
                           question_av_tags |-> <<>>,
                           answer_av_tags |-> <<>>]>>

C10_Witness ==
    /\ exc.origin = "handler"
    /\ exc.cls = "Exception"
    /\ rpc = "raised"
    /\ exc.side = "a"
    /\ exc.idx < Len(nodes.a)
    /\ exc.fidx < Len(nodes.a[exc.idx].filters)
    /\ returned = <<>>

====
